---- MODULE Spec2Model ----
(***************************************************************************)
(* Model of litex/soc/integration/soc.py: the bus region allocator         *)
(* (SoCBus), the CSR location allocator (SoCCSR), the IRQ line allocator   *)
(* (SoCIRQ), the address decoder of a region, the decoders do_finalize     *)
(* takes for the slaves, and their error paths.                            *)
(* A Python dict is a sequence of entries in insertion order; assigning to *)
(* an existing key keeps its position.  A bare `raise` is an error result  *)
(* that leaves whatever the handler had already written.                   *)
(***************************************************************************)
EXTENDS Integers, Sequences, FiniteSets, TLC

\* ---------------------------------------------------------------- bounds
\* address_width of the modelled bus (the source supports 32).
AddressWidth == 3
\* explicit origins a caller passes: 0..MaxOrigin
MaxOrigin == 2
\* explicit sizes a caller passes: 1..MaxSize
MaxSize == 2
\* calls made on one SoCBus after its construction, in the specification
\* that mixes add_region, add_slave and add_master
MaxCalls == 3
\* explicit CSR locations a caller passes: -1..MaxLoc
MaxLoc == 2
\* n_irqs given to SoCIRQ(...): 1..MaxIrqs, beside the default
MaxIrqs == 3
\* candidates one alloc_region call is followed for, per search region
MaxTries == 5
\* width of a byte address seen by decoder() (the source clears bit 31 of a
\* 32-bit origin; the model clears bit DecoderBits-1)
DecoderBits == 6

\* ------------------------------------------------------------- constants
ReservedRegionSize == 16777216

RECURSIVE Pow2(_)
Pow2(k) == IF k = 0 THEN 1 ELSE 2 * Pow2(k - 1)

SetMin(S) == CHOOSE x \in S : \A y \in S : x <= y

\* ------------------------------------------------------------ SoCRegion
NoOrigin == -1
NoName   == "None"
NoPair   == <<>>

SoCRegion(origin, size, cached) ==
    [kind |-> "region", origin |-> origin, size |-> size, cached |-> cached]

SoCLinkerRegion(origin, size, cached) ==
    [kind |-> "linker", origin |-> origin, size |-> size, cached |-> cached]

\* a value that is neither SoCRegion nor SoCLinkerRegion
OtherObject == [kind |-> "other", origin |-> NoOrigin, size |-> 0, cached |-> TRUE]
\* Python None passed as a region
NoRegion    == [kind |-> "none", origin |-> NoOrigin, size |-> 0, cached |-> TRUE]

IsLinker(r) == r.kind = "linker"
\* isinstance(region, SoCRegion) is true of the subclass too
IsSoCRegion(r) == r.kind \in {"region", "linker"}

\* ----------------------------------------------------------- dict helpers
Keys(d) == {d[i].name : i \in 1..Len(d)}

Index(d, name) == CHOOSE i \in 1..Len(d) : d[i].name = name

Get(d, name) == d[Index(d, name)].region

\* a list of (name, region) pairs instead of a dict: a second entry per name
DictSetAppend(d, name, region) ==
    Append(d, [name |-> name, region |-> region])

DictSet(d, name, region) ==
    IF name \in Keys(d)
    THEN [d EXCEPT ![Index(d, name)] = [name |-> name, region |-> region]]
    ELSE Append(d, [name |-> name, region |-> region])

\* ------------------------------------------------------------ check_region
\* an off-by-one end address: the last byte of r1 is not counted
BeforeLoose(r0, r1) == r0.origin >= r1.origin + r1.size - 1

Before(r0, r1) == r0.origin >= r1.origin + r1.size

Conflict(r0, r1) ==
    /\ ~(IsLinker(r0) \/ IsLinker(r1))
    /\ ~Before(r0, r1)
    /\ ~Before(r1, r0)

ConflictPairs(d) ==
    {p \in (1..Len(d)) \X (1..Len(d)) :
        p[1] < p[2] /\ Conflict(d[p[1]].region, d[p[2]].region)}

check_region(d) ==
    LET bad == ConflictPairs(d) IN
    IF bad = {} THEN NoPair
    ELSE LET p == CHOOSE p \in bad : \A q \in bad :
                      p[1] < q[1] \/ (p[1] = q[1] /\ p[2] <= q[2])
         IN <<d[p[1]].name, d[p[2]].name>>

\* ------------------------------------------------------------ alloc_region
MainSearchRegion == SoCRegion(0, Pow2(AddressWidth) - 1, TRUE)

\* one address past the end of the conflicting region
NextOriginSkip(origin, allocated) == allocated.origin + allocated.size + 1

\* line 183: the next candidate starts at the end of the conflicting region
NextOrigin(origin, allocated) == allocated.origin + allocated.size

\* line 176: the loop condition of the candidate scan
InSearchRegion(origin, size, search_region) ==
    (origin + size) < (search_region.origin + search_region.size)

\* lines 181-185: the first registered region, in dict order, the candidate hits
FirstHit(d, candidate) ==
    LET hits == {i \in 1..Len(d) :
                    check_region(<<[name |-> "0", region |-> d[i].region],
                                   [name |-> "1", region |-> candidate]>>) # NoPair}
    IN IF hits = {} THEN 0 ELSE SetMin(hits)

RECURSIVE SearchFrom(_, _, _, _, _)
SearchFrom(origin, size, cached, search_region, d) ==
    IF ~InSearchRegion(origin, size, search_region) THEN NoRegion
    ELSE LET candidate == SoCRegion(origin, size, cached)
             i         == FirstHit(d, candidate)
         IN IF i = 0 THEN candidate
            ELSE SearchFrom(NextOrigin(origin, d[i].region), size, cached,
                            search_region, d)

RECURSIVE SearchAll(_, _, _, _, _)
SearchAll(search_regions, k, size, cached, d) ==
    IF k > Len(search_regions) THEN [err |-> "OutOfSpaceError", region |-> NoRegion]
    ELSE LET c == SearchFrom(search_regions[k].origin, size, cached,
                             search_regions[k], d)
         IN IF c # NoRegion THEN [err |-> "ok", region |-> c]
            ELSE SearchAll(search_regions, k + 1, size, cached, d)

\* lines 164-171.  `uncached_regions[name] = region` reads a name that
\* alloc_region never binds: the first uncached entry raises NameError, so
\* uncached_regions is only ever the empty dict.
search_regions(d, cached) ==
    IF \E i \in 1..Len(d) : d[i].region.cached = FALSE
    THEN [err |-> "NameError", regions |-> <<>>]
    ELSE IF cached = FALSE
         THEN [err |-> "ok", regions |-> <<>>]
         ELSE [err |-> "ok", regions |-> <<MainSearchRegion>>]

alloc_region(d, size, cached) ==
    LET s == search_regions(d, cached) IN
    IF s.err # "ok" THEN [err |-> s.err, region |-> NoRegion]
    ELSE SearchAll(s.regions, 1, size, cached, d)

\* -------------------------------------------------------------- add_region
\* The result of add_region on table d: the table it leaves, the error it
\* raised ("ok" when it returned) and the pair of names it reported.
add_region_result(d, name, region) ==
    IF IsLinker(region)
    THEN [regions |-> d, err |-> "ok", pair |-> NoPair]
    ELSE IF IsSoCRegion(region)
    THEN IF region.origin = NoOrigin
         THEN LET a == alloc_region(d, region.size, region.cached) IN
              IF a.err # "ok"
              THEN [regions |-> d, err |-> a.err, pair |-> NoPair]
              ELSE [regions |-> DictSet(d, name, a.region), err |-> "ok",
                    pair |-> NoPair]
         ELSE LET new     == DictSet(d, name, region)
                  overlap == check_region(new)
              IN [regions |-> new,
                  err     |-> IF overlap # NoPair THEN "OverlapError" ELSE "ok",
                  pair    |-> overlap]
    ELSE [regions |-> d, err |-> "TypeError", pair |-> NoPair]

\* ------------------------------------------------------------------ state
VARIABLES
    regions,      \* SoCBus.regions: name -> region, in insertion order
    masters,      \* SoCBus.masters: the names registered (handles are opaque)
    slaves,       \* SoCBus.slaves:  the names registered (handles are opaque)
    bus_call,     \* the last SoCBus call: its arguments, its outcome, the table before it
    bus_failed,   \* some SoCBus call of this run has raised
    calls,        \* SoCBus calls made since construction
    csr_cfg,      \* SoCCSR data_width, address_width, paging, n_csrs
    csrs,         \* SoCCSR.csrs: name -> location
    csr_call,     \* the last SoCCSR call: its arguments, its outcome, the table before it
    csr_failed    \* some SoCCSR.add of this run has raised

bus_vars == <<regions, masters, slaves, bus_call, bus_failed, calls>>
csr_vars == <<csr_cfg, csrs, csr_call, csr_failed>>

VARIABLES
    n_irqs,       \* SoCIRQ.n_irqs
    irqs,         \* SoCIRQ.irqs: name -> line
    irq_call,     \* the last call on the SoCIRQ, its outcome, the table before
    irq_failed    \* some call on the SoCIRQ has raised

irq_vars == <<n_irqs, irqs, irq_call, irq_failed>>

VARIABLES
    self,         \* the SoCRegion whose decoder() is taken
    decoded,      \* what self.decoder() gave: the predicate, or the error
    adr,          \* the word address the predicate was last applied to, or -1
    sel           \* what the predicate answered for adr

decoder_vars == <<self, decoded, adr, sel>>

VARIABLES
    bus_slaves    \* SoC.do_finalize: the decoder taken for every slave

soc_vars == <<bus_slaves>>

VARIABLES
    search        \* the alloc_region call in progress: its arguments, its
                  \* search regions, the one it is in, its origin, the
                  \* candidates it has tried there, and how it ended

search_vars == <<search>>

vars     == <<regions, masters, slaves, bus_call, bus_failed, calls,
              csr_cfg, csrs, csr_call, csr_failed,
              n_irqs, irqs, irq_call, irq_failed,
              self, decoded, adr, sel, bus_slaves, search>>

\* --------------------------------------------------------------- bus inputs
Names       == {"rom", "ram"}
MasterNames == {"cpu"}

\* "slave{:d}".format(len(self.slaves)), "master{:d}".format(len(self.masters))
SlaveName(n) ==
    <<"slave0", "slave1", "slave2", "slave3", "slave4", "slave5">>[n + 1]
MasterName(n) ==
    <<"master0", "master1", "master2", "master3", "master4", "master5">>[n + 1]

\* sizes of allocation requests: the explicit sizes, and the whole address span
AllocSizes == (1..MaxSize) \cup {Pow2(AddressWidth)}

PlacedRegions == {SoCRegion(o, s, TRUE) : o \in 0..MaxOrigin, s \in 1..MaxSize}
\* an I/O window a caller sets aside, and a request for I/O space
IoRegions     == {SoCRegion(MaxOrigin, MaxSize, FALSE)}
AllocRequests == {SoCRegion(NoOrigin, s, TRUE) : s \in AllocSizes}
                     \cup {SoCRegion(NoOrigin, 1, FALSE)}
LinkerRegions == {SoCLinkerRegion(0, 1, TRUE)}

RegionInputs ==
    PlacedRegions \cup IoRegions \cup AllocRequests \cup LinkerRegions
        \cup {OtherObject}

\* the regions of the calls that are mixed with add_slave and add_master:
\* two placed regions that overlap each other, two allocation requests and a
\* linker region
SlaveRegionInputs ==
    {SoCRegion(o, MaxSize, TRUE) : o \in 0..1}
        \cup {SoCRegion(NoOrigin, s, TRUE) : s \in {1, MaxSize}}
        \cup LinkerRegions

\* reserved_regions dicts given to SoCBus(...): none, the scenario of the
\* module's own test (a placed "rom", an allocated "ram"), and an integer
\* origin, which stands for a region of ReservedRegionSize there.
IntOrigin(n) == [kind |-> "int", origin |-> n, size |-> 0, cached |-> TRUE]

ReservedInputs ==
    { <<>>,
      << [name |-> "rom", region |-> SoCRegion(1, MaxSize, TRUE)],
         [name |-> "ram", region |-> SoCRegion(NoOrigin, 1, TRUE)] >>,
      << [name |-> "rom", region |-> IntOrigin(0)] >> }

\* lines 119-122
RECURSIVE reserve(_, _, _)
reserve(reserved, k, d) ==
    IF k > Len(reserved) THEN [regions |-> d, err |-> "ok"]
    ELSE LET given  == reserved[k].region
             region == IF given.kind = "int"
                       THEN SoCRegion(given.origin, ReservedRegionSize, TRUE)
                       ELSE given
             r      == add_region_result(d, reserved[k].name, region)
         IN IF r.err # "ok" THEN [regions |-> r.regions, err |-> r.err]
            ELSE reserve(reserved, k + 1, r.regions)

BusCall(op, name, region, err, pair, pre, pre_slaves, pre_masters) ==
    [op |-> op, name |-> name, region |-> region, err |-> err, pair |-> pair,
     pre |-> pre, pre_slaves |-> pre_slaves, pre_masters |-> pre_masters]

\* SoCBus("wishbone", reserved_regions=...) that returned
SoCBusInit(reserved_inputs) ==
    \E reserved \in reserved_inputs :
        \E r \in {reserve(reserved, 1, <<>>)} :
            /\ r.err = "ok"
            /\ regions = r.regions
            /\ masters = {}
            /\ slaves = {}
            /\ bus_call = BusCall("__init__", NoName, NoRegion, "ok", NoPair,
                                  <<>>, {}, {})
            /\ bus_failed = FALSE
            /\ calls = 0

\* ------------------------------------------------------------ bus actions
add_region(name, region) ==
    \E r \in {add_region_result(regions, name, region)} :
        /\ regions' = r.regions
        /\ bus_call' = BusCall("add_region", name, region, r.err, r.pair,
                               regions, slaves, masters)
        /\ bus_failed' = (bus_failed \/ r.err # "ok")
        /\ UNCHANGED <<masters, slaves>>

\* lines 211-220: the registry add_master leaves and the error it raised
add_master_result(m, name) ==
    LET n == IF name = NoName THEN MasterName(Cardinality(m)) ELSE name IN
    IF n \in m
    THEN [masters |-> m, err |-> "DuplicateNameError", name |-> n]
    ELSE [masters |-> m \cup {n}, err |-> "ok", name |-> n]

add_master(name) ==
    \E r \in {add_master_result(masters, name)} :
        /\ masters' = r.masters
        /\ bus_call' = BusCall("add_master", r.name, NoRegion, r.err, NoPair,
                               regions, slaves, masters)
        /\ bus_failed' = (bus_failed \/ r.err # "ok")
        /\ UNCHANGED <<regions, slaves>>

\* lines 222-246: the table and registry add_slave leaves and the error it raised
add_slave_result(d, s, name, region) ==
    LET no_name   == name = NoName
        no_region == region = NoRegion
        n         == IF no_name THEN SlaveName(Cardinality(s)) ELSE name
    IN
    IF no_name /\ no_region
    THEN [regions |-> d, slaves |-> s, err |-> "ValueError", pair |-> NoPair,
          name |-> name]
    ELSE LET r == IF no_region
                  THEN [regions |-> d,
                        err     |-> IF n \in Keys(d) THEN "ok"
                                    ELSE "RegionNotFoundError",
                        pair    |-> NoPair]
                  ELSE add_region_result(d, n, region)
         IN IF r.err # "ok"
            THEN [regions |-> r.regions, slaves |-> s, err |-> r.err,
                  pair |-> r.pair, name |-> n]
            ELSE IF n \in s
            THEN [regions |-> r.regions, slaves |-> s,
                  err |-> "DuplicateNameError", pair |-> NoPair, name |-> n]
            ELSE [regions |-> r.regions, slaves |-> s \cup {n}, err |-> "ok",
                  pair |-> NoPair, name |-> n]

add_slave(name, region) ==
    \E r \in {add_slave_result(regions, slaves, name, region)} :
        /\ regions' = r.regions
        /\ slaves' = r.slaves
        /\ bus_call' = BusCall("add_slave", r.name, region, r.err, r.pair,
                               regions, slaves, masters)
        /\ bus_failed' = (bus_failed \/ r.err # "ok")
        /\ UNCHANGED masters

\* ------------------------------------------------------------------ SoCCSR
\* CSR names are strings; <<"csr", 0>> stands for "csr0".
CsrName(base, k) == <<base, k>>

supported_data_width    == {8, 32}
supported_address_width == {14, 15}
Paging == 2048

\* line 311
n_csrs_of(data_width, address_width, paging) ==
    (4 * Pow2(address_width)) \div paging

\* line 360: the range SoCCSR.alloc scans
alloc_range(cfg) ==
    (((cfg.data_width \div 8) * Pow2(cfg.address_width)) \div cfg.paging)

Values(c) == {c[k] : k \in DOMAIN c}

CsrSet(c, name, n) ==
    [k \in (DOMAIN c) \cup {name} |-> IF k = name THEN n ELSE c[k]]

\* a scan that wraps around to location 0 when nothing is free
csr_alloc_wrap(c, cfg) ==
    LET free == {n \in 0..(alloc_range(cfg) - 1) : n \notin Values(c)} IN
    IF free = {} THEN [err |-> "ok", n |-> 0]
    ELSE [err |-> "ok", n |-> SetMin(free)]

\* lines 359-365
csr_alloc(c, cfg) ==
    LET free == {n \in 0..(alloc_range(cfg) - 1) : n \notin Values(c)} IN
    IF free = {} THEN [err |-> "OutOfSpaceError", n |-> -1]
    ELSE [err |-> "ok", n |-> SetMin(free)]

\* the location-in-use check left out
location_unchecked(c, has_n, n) == FALSE

\* line 333: `n in self.csrs.values()`; None is never a stored location
location_used(c, has_n, n) == has_n /\ n \in Values(c)

\* the upper bound tightened to the last index
too_high_strict(n, cfg) == n >= cfg.n_csrs

\* line 345
too_high(n, cfg) == n > cfg.n_csrs

\* the use_loc_if_exists flag ignored
use_existing_never(c, name, use_loc_if_exists) == FALSE

\* line 328: `use_loc_if_exists and name in self.csrs.keys()`
use_existing(c, name, use_loc_if_exists) ==
    use_loc_if_exists /\ name \in DOMAIN c

\* lines 326-356: the table SoCCSR.add leaves, the error it raised and the
\* location it logged
csr_add_result(c, cfg, name, has_n, n, use_loc_if_exists) ==
    IF use_existing(c, name, use_loc_if_exists)
    THEN [csrs |-> c, err |-> "ok", n |-> c[name]]
    ELSE IF name \in DOMAIN c
    THEN [csrs |-> c, err |-> "DuplicateNameError", n |-> -1]
    ELSE IF location_used(c, has_n, n)
    THEN [csrs |-> c, err |-> "LocationInUseError", n |-> -1]
    ELSE IF ~has_n
    THEN LET a == csr_alloc(c, cfg) IN
         IF a.err # "ok" THEN [csrs |-> c, err |-> a.err, n |-> -1]
         ELSE [csrs |-> CsrSet(c, name, a.n), err |-> "ok", n |-> a.n]
    ELSE IF n < 0 \/ too_high(n, cfg)
    THEN [csrs |-> c, err |-> "RangeError", n |-> -1]
    ELSE [csrs |-> CsrSet(c, name, n), err |-> "ok", n |-> n]

EmptyDict == [k \in {} |-> 0]

\* reserved_csrs given to SoCCSR(...): none, the module's own test, and a
\* table that assigns every location below `top`
Filled(top) == [k \in {CsrName("reserved", i) : i \in 0..(top - 1)} |-> k[2]]

ReservedCsrs(cfg) ==
    { EmptyDict,
      [k \in {CsrName("ctrl", 0), CsrName("uart", 0)} |->
            IF k = CsrName("ctrl", 0) THEN 0 ELSE 1],
      Filled(alloc_range(cfg) - 1),
      Filled(alloc_range(cfg)) }

CsrCallNames == {CsrName("ctrl", 0), CsrName("csr", 0), CsrName("csr", 1)}

\* explicit locations a caller passes: the low ones, and those around the
\* two capacities of the configuration
ExplicitLocs(cfg) ==
    (-1..MaxLoc) \cup {alloc_range(cfg), cfg.n_csrs, cfg.n_csrs + 1}

CsrCall(op, name, has_n, n, reuse, err, loc, pre) ==
    [op |-> op, name |-> name, has_n |-> has_n, n |-> n, reuse |-> reuse,
     err |-> err, loc |-> loc, pre |-> pre]

\* lines 320-321: every reserved entry goes through add(name, n)
RECURSIVE csr_reserve(_, _, _)
csr_reserve(reserved, c, cfg) ==
    IF DOMAIN reserved = {} THEN [csrs |-> c, err |-> "ok"]
    ELSE LET name == CHOOSE k \in DOMAIN reserved :
                        \A j \in DOMAIN reserved : reserved[k] <= reserved[j]
             rest == [k \in (DOMAIN reserved) \ {name} |-> reserved[k]]
             r    == csr_add_result(c, cfg, name, TRUE, reserved[name], FALSE)
         IN IF r.err # "ok" THEN [csrs |-> r.csrs, err |-> r.err]
            ELSE csr_reserve(rest, r.csrs, cfg)

\* SoCCSR(data_width, address_width, reserved_csrs=...) that returned
SoCCSRInit(data_widths, address_widths, with_reserved) ==
    \E dw \in data_widths, aw \in address_widths :
        \E cfg \in {[data_width |-> dw, address_width |-> aw, paging |-> Paging,
                     n_csrs |-> n_csrs_of(dw, aw, Paging)]} :
            \E reserved \in (IF with_reserved THEN ReservedCsrs(cfg) ELSE {EmptyDict}) :
                \E r \in {csr_reserve(reserved, EmptyDict, cfg)} :
                    /\ r.err = "ok"
                    /\ csr_cfg = cfg
                    /\ csrs = r.csrs
                    /\ csr_call = CsrCall("__init__", CsrName("None", 0), FALSE, 0,
                                          FALSE, "ok", -1, EmptyDict)
                    /\ csr_failed = FALSE

csr_add(name, has_n, n, use_loc_if_exists) ==
    \E r \in {csr_add_result(csrs, csr_cfg, name, has_n, n, use_loc_if_exists)} :
        /\ csrs' = r.csrs
        /\ csr_call' = CsrCall("add", name, has_n, n, use_loc_if_exists, r.err,
                               r.n, csrs)
        /\ csr_failed' = (csr_failed \/ r.err # "ok")
        /\ UNCHANGED csr_cfg

\* -------------------------------------------------------------------- IRQ
IrqName(base, k) == <<base, k>>

\* line 384
DefaultIrqs == 32
\* line 389
MaxSupportedIrqs == 32

\* the name check skipped
irq_name_unchecked(c, name) == FALSE

\* line 409
irq_name_used(c, name) == name \in DOMAIN c

\* the location check skipped
irq_location_unchecked(c, has_n, n) == FALSE

\* line 413: `n in self.irqs.values()`; None is no value of the table
irq_location_used(c, has_n, n) == has_n /\ n \in Values(c)

\* a scan from the highest line down
irq_alloc_highest(c, n) ==
    LET free == {i \in 0..(n - 1) : i \notin Values(c)} IN
    IF free = {} THEN [err |-> "OutOfSpaceError", n |-> -1]
    ELSE [err |-> "ok", n |-> CHOOSE i \in free : \A j \in free : j <= i]

\* lines 437-443
irq_alloc(c, n) ==
    LET free == {i \in 0..(n - 1) : i \notin Values(c)} IN
    IF free = {} THEN [err |-> "OutOfSpaceError", n |-> -1]
    ELSE [err |-> "ok", n |-> SetMin(free)]

\* lines 407-434: the table add leaves, the error it raised and the line it
\* logged.  Formatting the "too high" message reads self.n_csrs, which a
\* SoCIRQ does not have.
irq_add_result(c, max, name, has_n, n) ==
    IF irq_name_used(c, name)
    THEN [irqs |-> c, err |-> "DuplicateNameError", n |-> -1]
    ELSE IF irq_location_used(c, has_n, n)
    THEN [irqs |-> c, err |-> "LocationInUseError", n |-> -1]
    ELSE IF ~has_n
    THEN LET a == irq_alloc(c, max) IN
         IF a.err # "ok" THEN [irqs |-> c, err |-> a.err, n |-> -1]
         ELSE [irqs |-> [k \in (DOMAIN c) \cup {name} |->
                            IF k = name THEN a.n ELSE c[k]],
               err |-> "ok", n |-> a.n]
    ELSE IF n < 0
    THEN [irqs |-> c, err |-> "RangeError", n |-> -1]
    ELSE IF n > max
    THEN [irqs |-> c, err |-> "AttributeError", n |-> -1]
    ELSE [irqs |-> [k \in (DOMAIN c) \cup {name} |->
                       IF k = name THEN n ELSE c[k]],
          err |-> "ok", n |-> n]

\* reserved_irqs given to SoCIRQ(...): none, the module's own test, a table
\* that assigns every line below `top`, and two names on one line
IrqFilled(top) == [k \in {IrqName("reserved", i) : i \in 0..(top - 1)} |-> k[2]]

ReservedIrqs(n) ==
    { EmptyDict,
      [k \in {IrqName("uart", 0)} |-> 1],
      IrqFilled(n - 1),
      IrqFilled(n),
      [k \in {IrqName("uart", 0), IrqName("timer", 0)} |-> 1] }

IrqCallNames == {IrqName("uart", 0), IrqName("timer", 0), IrqName("timer", 1)}

\* explicit lines a caller passes: the low ones and those around n_irqs
ExplicitLines(n) == (-1..MaxLoc) \cup {n - 1, n, n + 1}

IrqCall(op, name, has_n, n, err, loc, pre) ==
    [op |-> op, name |-> name, has_n |-> has_n, n |-> n, err |-> err,
     loc |-> loc, pre |-> pre]

\* lines 400-401: every reserved entry goes through add(name, n)
RECURSIVE irq_reserve(_, _, _)
irq_reserve(reserved, c, max) ==
    IF DOMAIN reserved = {} THEN [irqs |-> c, err |-> "ok"]
    ELSE LET name == CHOOSE k \in DOMAIN reserved : TRUE
             rest == [k \in (DOMAIN reserved) \ {name} |-> reserved[k]]
             r    == irq_add_result(c, max, name, TRUE, reserved[name])
         IN IF r.err # "ok" THEN [irqs |-> r.irqs, err |-> r.err]
            ELSE irq_reserve(rest, r.irqs, max)

\* SoCIRQ(n_irqs=..., reserved_irqs=...) that returned
SoCIRQInit(sizes, with_reserved) ==
    \E n \in sizes :
        \E reserved \in (IF with_reserved THEN ReservedIrqs(n) ELSE {EmptyDict}) :
            \E r \in {irq_reserve(reserved, EmptyDict, n)} :
                /\ ~(n > MaxSupportedIrqs)
                /\ r.err = "ok"
                /\ n_irqs = n
                /\ irqs = r.irqs
                /\ irq_call = IrqCall("__init__", IrqName("None", 0), FALSE, 0,
                                      "ok", -1, EmptyDict)
                /\ irq_failed = FALSE

irq_add(name, has_n, n) ==
    \E r \in {irq_add_result(irqs, n_irqs, name, has_n, n)} :
        /\ irqs' = r.irqs
        /\ irq_call' = IrqCall("add", name, has_n, n, r.err, r.n, irqs)
        /\ irq_failed' = (irq_failed \/ r.err # "ok")
        /\ UNCHANGED n_irqs

\* ---------------------------------------------------------------- decoder
\* int.bit_length()
RECURSIVE bit_length(_)
bit_length(n) == IF n = 0 THEN 0 ELSE 1 + bit_length(n \div 2)

\* migen's log2_int(n, need_pow2=False), and log2_int(n) of a power of two
\* or of 0: 0 for n = 0, else (n - 1).bit_length()
log2_int(n) == IF n = 0 THEN 0 ELSE bit_length(n - 1)

\* the bit that line 48 clears (0x80000000 in the source)
TopBit == Pow2(DecoderBits - 1)

\* line 48: `origin = self.origin & ~0x80000000`
clear_top_bit(origin) ==
    IF (origin \div TopBit) % 2 = 1 THEN origin - TopBit ELSE origin

\* the length of the word address signal the predicate is applied to: a byte
\* address without its two low bits
AdrWidth == DecoderBits - 2

\* a[k:] of the signal
slice_to_top(a, k) == a \div Pow2(k)

\* line 58: a[k:-1] of the signal a, the bits k .. len(a)-2
slice(a, k) == (a \div Pow2(k)) % Pow2(AdrWidth - 1 - k)

NoDecoder == [err |-> "none", shift |-> 0, value |-> 0]

\* lines 47-58: the predicate decoder() returns is the pair of the slice
\* start and the value the slice is compared with
decoder(region) ==
    LET origin == clear_top_bit(region.origin)
        size   == Pow2(log2_int(region.size))
    IN IF origin % size # 0
       THEN [err |-> "AlignmentError", shift |-> 0, value |-> 0]
       ELSE LET origin_w == origin \div 4
                size_w   == size \div 4
            IN [err   |-> "ok",
                shift |-> log2_int(size_w),
                value |-> origin_w \div Pow2(log2_int(size_w))]

\* line 58: the predicate applied to the word address a
decode(d, a) == slice(a, d.shift) = d.value

\* regions whose decoder is taken: every origin of the address space and
\* every size up to a quarter of it, so that the slice keeps a bit
DecoderRegions ==
    {SoCRegion(o, sz, TRUE) : o \in 0..(Pow2(DecoderBits) - 1),
                              sz \in 1..Pow2(DecoderBits - 2)}

WordAddresses == 0..(Pow2(AdrWidth) - 1)

\* a SoCRegion whose decoder() has not been called
SoCRegionInit(inputs) ==
    /\ self \in inputs
    /\ decoded = NoDecoder
    /\ adr = -1
    /\ sel = FALSE

\* self.decoder()
take_decoder ==
    /\ decoded.err = "none"
    /\ decoded' = decoder(self)
    /\ UNCHANGED <<self, adr, sel>>

\* the predicate evaluated on a word address
apply_decoder(a) ==
    /\ decoded.err = "ok"
    /\ adr' = a
    /\ sel' = decode(decoded, a)
    /\ UNCHANGED <<self, decoded>>

\* ------------------------------------------------------------ do_finalize
\* do_finalize has not run
NotFinalized == [err |-> "none", decoders |-> EmptyDict, interconnect |-> FALSE]

SoCInit == bus_slaves = NotFinalized

\* line 529: the slaves whose name has no entry in the region table
missing_regions(d, s) == {n \in s : n \notin Keys(d)}

\* line 529: the slaves whose region fails the alignment check of decoder()
unaligned_regions(d, s) ==
    {n \in s \ missing_regions(d, s) : decoder(Get(d, n)).err # "ok"}

\* lines 528-535.  The list of line 529 is built in the order of the slave
\* registry and the first slave that fails ends it: with slaves of both
\* kinds either error is possible.
do_finalize_errors(d, s) ==
    LET missing   == missing_regions(d, s)
        unaligned == unaligned_regions(d, s)
    IN IF missing = {} /\ unaligned = {} THEN {"ok"}
       ELSE (IF missing # {} THEN {"KeyError"} ELSE {})
                \cup (IF unaligned # {} THEN {"AlignmentError"} ELSE {})

do_finalize ==
    /\ bus_slaves.err = "none"
    /\ \E e \in do_finalize_errors(regions, slaves) :
          bus_slaves' =
              IF e # "ok"
              THEN [err |-> e, decoders |-> EmptyDict, interconnect |-> FALSE]
              ELSE [err          |-> "ok",
                    decoders     |-> [n \in slaves |-> decoder(Get(regions, n))],
                    interconnect |-> masters # {} /\ slaves # {}]

\* regions given to add_slave before do_finalize: one word or three words,
\* at the bottom of the address space, three words up, and at the top bit;
\* and a request for one allocated word
FinalizeRegions ==
    {SoCRegion(o, sz, TRUE) : o \in {0, 12, TopBit}, sz \in {4, 12}}
        \cup {SoCRegion(NoOrigin, 4, TRUE)}

\* ------------------------------------------------- alloc_region, by steps
\* no alloc_region call is running
NoSearch ==
    [pc |-> "idle", size |-> 0, cached |-> TRUE, search_regions |-> <<>>,
     k |-> 0, origin |-> 0, tries |-> 0, err |-> "ok", candidate |-> NoRegion]

SearchInit == search = NoSearch

\* lines 158-175: the call, up to the first search region
alloc_begin(size, cached) ==
    /\ search.pc = "idle"
    /\ \E s \in {search_regions(regions, cached)} :
          search' =
              IF s.err # "ok"
              THEN [NoSearch EXCEPT !.pc = "raised", !.size = size,
                                    !.cached = cached, !.err = s.err]
              ELSE [NoSearch EXCEPT !.pc = "scan", !.size = size,
                                    !.cached = cached,
                                    !.search_regions = s.regions, !.k = 1,
                                    !.origin = IF s.regions = <<>> THEN 0
                                               ELSE s.regions[1].origin]

\* a conflict that leaves the candidate where it is
search_try_stuck(st, d) ==
    LET candidate == SoCRegion(st.origin, st.size, st.cached)
        i         == FirstHit(d, candidate)
    IN IF i = 0
       THEN [st EXCEPT !.pc = "returned", !.candidate = candidate,
                       !.tries = st.tries + 1]
       ELSE [st EXCEPT !.tries = st.tries + 1]

\* lines 177-188: one pass of the while loop's body
search_try_result(st, d) ==
    LET candidate == SoCRegion(st.origin, st.size, st.cached)
        i         == FirstHit(d, candidate)
    IN IF i = 0
       THEN [st EXCEPT !.pc = "returned", !.candidate = candidate,
                       !.tries = st.tries + 1]
       ELSE [st EXCEPT !.origin = NextOrigin(st.origin, d[i].region),
                       !.tries = st.tries + 1]

\* lines 176-188: the loop condition holds and a candidate is tried
search_try ==
    /\ search.pc = "scan"
    /\ search.k <= Len(search.search_regions)
    /\ InSearchRegion(search.origin, search.size,
                      search.search_regions[search.k])
    /\ search.tries < MaxTries
    /\ search' = search_try_result(search, regions)

\* lines 174-176, 190-191: the loop condition fails; the next search region
\* is taken, and after the last one the call raises
search_exhausted ==
    /\ search.pc = "scan"
    /\ \/ search.k > Len(search.search_regions)
       \/ /\ search.k <= Len(search.search_regions)
          /\ ~InSearchRegion(search.origin, search.size,
                             search.search_regions[search.k])
    /\ search' =
          IF search.k >= Len(search.search_regions)
          THEN [search EXCEPT !.pc = "raised", !.err = "OutOfSpaceError"]
          ELSE [search EXCEPT !.k = search.k + 1,
                              !.origin = search.search_regions[search.k + 1].origin,
                              !.tries = 0]

\* the call is over
alloc_end ==
    /\ search.pc \in {"returned", "raised"}
    /\ search' = NoSearch

\* ---------------------------------------------------------- specifications
\* One SoCBus and up to MaxCalls calls of add_region, add_slave and
\* add_master on it, beside a default SoCCSR().
Init ==
    /\ SearchInit
    /\ SoCBusInit(ReservedInputs)
    /\ SoCCSRInit({32}, {14}, FALSE)
    /\ SoCIRQInit({DefaultIrqs}, FALSE)
    /\ SoCRegionInit({SoCRegion(0, 4, TRUE)})
    /\ SoCInit

AddRegion ==
    \E name \in Names, region \in SlaveRegionInputs :
        /\ calls < MaxCalls
        /\ add_region(name, region)
        /\ calls' = calls + 1

AddMaster ==
    \E name \in MasterNames \cup {NoName} :
        /\ calls < MaxCalls
        /\ add_master(name)
        /\ calls' = calls + 1

AddSlave ==
    \E name \in Names \cup {NoName}, region \in SlaveRegionInputs \cup {NoRegion} :
        /\ calls < MaxCalls
        /\ add_slave(name, region)
        /\ calls' = calls + 1

Next ==
    \/ AddRegion /\ UNCHANGED <<csr_vars, irq_vars, decoder_vars, soc_vars, search_vars>>
    \/ AddMaster /\ UNCHANGED <<csr_vars, irq_vars, decoder_vars, soc_vars, search_vars>>
    \/ AddSlave /\ UNCHANGED <<csr_vars, irq_vars, decoder_vars, soc_vars, search_vars>>

Spec == Init /\ [][Next]_vars

\* The region table of one SoCBus under any number of add_region calls.
RegionInit == Init

PlaceRegion ==
    \E name \in Names, region \in RegionInputs :
        /\ add_region(name, region)
        /\ UNCHANGED calls

RegionNext == PlaceRegion /\ UNCHANGED <<csr_vars, irq_vars, decoder_vars, soc_vars, search_vars>>

RegionSpec == RegionInit /\ [][RegionNext]_vars

\* One SoCCSR of every supported configuration under any number of add calls,
\* beside a default SoCBus("wishbone").
CsrInit ==
    /\ SearchInit
    /\ SoCCSRInit(supported_data_width, supported_address_width, TRUE)
    /\ SoCBusInit({<<>>})
    /\ SoCIRQInit({DefaultIrqs}, FALSE)
    /\ SoCRegionInit({SoCRegion(0, 4, TRUE)})
    /\ SoCInit

CsrAdd ==
    \E name \in CsrCallNames, has_n \in BOOLEAN, reuse \in BOOLEAN :
        \E n \in (IF has_n THEN ExplicitLocs(csr_cfg) ELSE {0}) :
            csr_add(name, has_n, n, reuse)

CsrNext == CsrAdd /\ UNCHANGED <<bus_vars, irq_vars, decoder_vars, soc_vars, search_vars>>

CsrSpec == CsrInit /\ [][CsrNext]_vars

\* One SoCIRQ of every size 1..MaxIrqs or of the default size, under any
\* number of add calls.
IrqInit ==
    /\ SearchInit
    /\ SoCIRQInit((1..MaxIrqs) \cup {DefaultIrqs, DefaultIrqs + 1}, TRUE)
    /\ SoCBusInit({<<>>})
    /\ SoCCSRInit({32}, {14}, FALSE)
    /\ SoCRegionInit({SoCRegion(0, 4, TRUE)})
    /\ SoCInit

IrqAdd ==
    \E name \in IrqCallNames, has_n \in BOOLEAN :
        \E n \in (IF has_n THEN ExplicitLines(n_irqs) ELSE {0}) :
            irq_add(name, has_n, n)

IrqNext == IrqAdd /\ UNCHANGED <<bus_vars, csr_vars, decoder_vars, soc_vars, search_vars>>

IrqSpec == IrqInit /\ [][IrqNext]_vars

\* One SoCRegion: its decoder is taken once and the predicate is then
\* applied to word addresses.
DecoderInit ==
    /\ SearchInit
    /\ SoCRegionInit(DecoderRegions)
    /\ SoCBusInit({<<>>})
    /\ SoCCSRInit({32}, {14}, FALSE)
    /\ SoCIRQInit({DefaultIrqs}, FALSE)
    /\ SoCInit

TakeDecoder == take_decoder

ApplyDecoder == \E a \in WordAddresses : apply_decoder(a)

DecoderNext ==
    \/ TakeDecoder /\ UNCHANGED <<bus_vars, csr_vars, irq_vars, soc_vars, search_vars>>
    \/ ApplyDecoder /\ UNCHANGED <<bus_vars, csr_vars, irq_vars, soc_vars, search_vars>>

DecoderSpec == DecoderInit /\ [][DecoderNext]_vars

\* One SoC: slaves and masters are added to its bus, then do_finalize runs,
\* once, and takes the decoder of every slave.
FinalizeInit ==
    /\ SearchInit
    /\ SoCBusInit({<<>>})
    /\ SoCInit
    /\ SoCCSRInit({32}, {14}, FALSE)
    /\ SoCIRQInit({DefaultIrqs}, FALSE)
    /\ SoCRegionInit({SoCRegion(0, 4, TRUE)})

FinalizeAddSlave ==
    \E name \in Names, region \in FinalizeRegions :
        /\ bus_slaves.err = "none"
        /\ add_slave(name, region)
        /\ UNCHANGED <<calls, bus_slaves>>

FinalizeAddMaster ==
    \E name \in MasterNames :
        /\ bus_slaves.err = "none"
        /\ add_master(name)
        /\ UNCHANGED <<calls, bus_slaves>>

DoFinalize == do_finalize /\ UNCHANGED bus_vars

FinalizeNext ==
    \/ FinalizeAddSlave /\ UNCHANGED <<csr_vars, irq_vars, decoder_vars, search_vars>>
    \/ FinalizeAddMaster /\ UNCHANGED <<csr_vars, irq_vars, decoder_vars, search_vars>>
    \/ DoFinalize /\ UNCHANGED <<csr_vars, irq_vars, decoder_vars, search_vars>>

FinalizeSpec == FinalizeInit /\ [][FinalizeNext]_vars

\* The region table of one SoCBus under add_region calls, and alloc_region
\* calls followed candidate by candidate.  A call that has started goes on
\* running: its steps are taken as long as one is possible.
SearchSpecInit == RegionInit

SearchPlace ==
    \E name \in Names, region \in SlaveRegionInputs \cup IoRegions :
        /\ search.pc = "idle"
        /\ add_region(name, region)
        /\ UNCHANGED <<calls, search>>

AllocBegin ==
    \E size \in AllocSizes, cached \in BOOLEAN :
        alloc_begin(size, cached) /\ UNCHANGED bus_vars

SearchTry == search_try /\ UNCHANGED bus_vars

SearchExhausted == search_exhausted /\ UNCHANGED bus_vars

AllocEnd == alloc_end /\ UNCHANGED bus_vars

SearchStep ==
    (SearchTry \/ SearchExhausted)
        /\ UNCHANGED <<csr_vars, irq_vars, decoder_vars, soc_vars>>

SearchNext ==
    \/ SearchPlace /\ UNCHANGED <<csr_vars, irq_vars, decoder_vars, soc_vars>>
    \/ AllocBegin /\ UNCHANGED <<csr_vars, irq_vars, decoder_vars, soc_vars>>
    \/ SearchTry /\ UNCHANGED <<csr_vars, irq_vars, decoder_vars, soc_vars>>
    \/ SearchExhausted /\ UNCHANGED <<csr_vars, irq_vars, decoder_vars, soc_vars>>
    \/ AllocEnd /\ UNCHANGED <<csr_vars, irq_vars, decoder_vars, soc_vars>>

SearchSpec == SearchSpecInit /\ [][SearchNext]_vars /\ WF_vars(SearchStep)

\* -------------------------------------------------------------- properties
IsPlaced(r)       == r.kind = "region" /\ r.origin # NoOrigin
IsAllocRequest(r) == r.kind = "region" /\ r.origin = NoOrigin

\* the intervals [origin, origin+size) of r0 and r1 share an address
Overlaps(r0, r1) ==
    r0.origin < r1.origin + r1.size /\ r1.origin < r0.origin + r0.size

NoOverlap(d) ==
    \A i, j \in 1..Len(d) :
        (i # j /\ d[i].region.kind # "linker" /\ d[j].region.kind # "linker")
            => \/ d[i].region.origin >= d[j].region.origin + d[j].region.size
               \/ d[j].region.origin >= d[i].region.origin + d[i].region.size

\* [o, o+size) overlaps no region of table d
Free(d, o, size) ==
    \A i \in 1..Len(d) :
        d[i].region.kind # "linker"
            => ~Overlaps(d[i].region, SoCRegion(o, size, TRUE))

\* the names, other than `name`, whose region in d overlaps r
OthersHit(d, name, r) ==
    {d[i].name : i \in {k \in 1..Len(d) :
        d[k].name # name /\ d[k].region.kind # "linker" /\ Overlaps(d[k].region, r)}}

\* C1: as long as no SoCBus call has failed, no two non-linker entries of
\* the region table overlap.
C1_NoOverlap == ~bus_failed => NoOverlap(regions)

C1_Witness ==
    /\ ~bus_failed
    /\ Len(regions) >= 3
    /\ bus_call.op = "add_slave"
    /\ IsAllocRequest(bus_call.region)
    /\ \E i \in 1..Len(regions) : regions[i].region.origin > 0

\* C2: on an overlap-free table, add_region of a placed region returns iff
\* the region overlaps no region registered under another name; otherwise it
\* raises the overlap error and reports `name` and a region it overlaps.
C2_PlacedRegionAccepted ==
    (/\ bus_call.op = "add_region"
     /\ IsPlaced(bus_call.region)
     /\ NoOverlap(bus_call.pre))
    => LET hit == OthersHit(bus_call.pre, bus_call.name, bus_call.region) IN
       /\ (bus_call.err = "ok") <=> (hit = {})
       /\ bus_call.err # "ok" =>
            /\ bus_call.err = "OverlapError"
            /\ Len(bus_call.pair) = 2
            /\ \E h \in hit :
                  {bus_call.pair[1], bus_call.pair[2]} = {bus_call.name, h}

C2_Witness ==
    /\ bus_call.op = "add_region"
    /\ IsPlaced(bus_call.region)
    /\ NoOverlap(bus_call.pre)
    /\ Len(bus_call.pre) = 2
    /\ bus_call.name \in Keys(bus_call.pre)
    /\ bus_call.err = "OverlapError"
    /\ Overlaps(bus_call.region, Get(bus_call.pre, bus_call.name))

\* C3: a cached allocation that returns gives a region of the requested
\* size, cached, at the lowest origin whose interval overlaps no region of
\* the table.
C3_FirstFit ==
    (/\ bus_call.op = "add_region"
     /\ IsAllocRequest(bus_call.region)
     /\ bus_call.region.cached
     /\ bus_call.err = "ok")
    => LET got == Get(regions, bus_call.name) IN
       /\ got.kind = "region"
       /\ got.size = bus_call.region.size
       /\ got.cached = TRUE
       /\ got.origin >= 0
       /\ Free(bus_call.pre, got.origin, got.size)
       /\ \A o \in 0..(got.origin - 1) : ~Free(bus_call.pre, o, got.size)

\* the allocation jumped over two regions registered in decreasing address
\* order, past a hole that was too small
C3_Witness ==
    /\ bus_call.op = "add_region"
    /\ IsAllocRequest(bus_call.region)
    /\ bus_call.region.cached
    /\ bus_call.err = "ok"
    /\ Len(bus_call.pre) = 2
    /\ bus_call.pre[1].region.origin > bus_call.pre[2].region.origin
    /\ Get(regions, bus_call.name).origin
          >= bus_call.pre[1].region.origin + bus_call.pre[1].region.size
    /\ \E o \in 0..Get(regions, bus_call.name).origin : Free(bus_call.pre, o, 1)

\* C4: a cached allocation request returns iff some interval of the
\* requested size inside [0, 2^address_width) overlaps no registered region,
\* and otherwise fails for lack of space.
C4_FullSpanSearched ==
    (/\ bus_call.op = "add_region"
     /\ IsAllocRequest(bus_call.region)
     /\ bus_call.region.cached)
    => LET size == bus_call.region.size
           slot == \E o \in 0..(Pow2(AddressWidth) - size) :
                       Free(bus_call.pre, o, size)
       IN /\ (bus_call.err = "ok") <=> slot
          /\ bus_call.err # "ok" => bus_call.err = "OutOfSpaceError"

\* C5: an uncached allocation request searches exactly the registered
\* uncached regions, and what it returns lies inside one of them.
C5_UncachedSearchSpace ==
    (/\ bus_call.op = "add_region"
     /\ IsAllocRequest(bus_call.region)
     /\ ~bus_call.region.cached)
    => LET pre      == bus_call.pre
           uncached == {pre[i].region : i \in {k \in 1..Len(pre) :
                                                 ~pre[k].region.cached}}
           s        == search_regions(pre, FALSE)
       IN /\ s.err = "ok"
          /\ {s.regions[i] : i \in 1..Len(s.regions)} = uncached
          /\ bus_call.err \in {"ok", "OutOfSpaceError"}
          /\ bus_call.err = "ok" =>
                LET got == Get(regions, bus_call.name) IN
                \E u \in uncached :
                    /\ u.origin <= got.origin
                    /\ got.origin + got.size <= u.origin + u.size

\* C6: add_region of a linker region returns and leaves the name in the
\* region table.
C6_LinkerRegistered ==
    (bus_call.op = "add_region" /\ IsLinker(bus_call.region))
    => /\ bus_call.err = "ok"
       /\ bus_call.name \in Keys(regions)

\* C7: a region placed under a name that already has a region, and that
\* overlaps that older region, is rejected with the overlap error.
C7_SameNameOverlapRejected ==
    (/\ bus_call.op \in {"add_region", "add_slave"}
     /\ IsPlaced(bus_call.region)
     /\ bus_call.name \in Keys(bus_call.pre)
     /\ Overlaps(bus_call.region, Get(bus_call.pre, bus_call.name)))
    => bus_call.err = "OverlapError"

\* C8: as long as no SoCBus call has failed, every slave name has an entry
\* in the region table.
C8_SlaveHasRegion == ~bus_failed => slaves \subseteq Keys(regions)

\* C9: no two names of the CSR table share a location.
C9_CsrLocationsUnique ==
    \A a, b \in DOMAIN csrs : a # b => csrs[a] # csrs[b]

C9_Witness ==
    /\ csr_failed
    /\ csr_call.op = "add"
    /\ csr_call.has_n
    /\ csr_call.err = "ok"
    /\ csrs # csr_call.pre
    /\ Cardinality(DOMAIN csrs) >= 3
    /\ \E k \in DOMAIN csrs : csrs[k] = csr_cfg.n_csrs

\* C10: add(name) with n omitted and a new name takes the lowest unassigned
\* location of [0, n_csrs) whenever there is one.
C10_LowestFreeBelowNCsrs ==
    (/\ csr_call.op = "add"
     /\ ~csr_call.has_n
     /\ csr_call.name \notin DOMAIN csr_call.pre
     /\ \E n \in 0..(csr_cfg.n_csrs - 1) : n \notin Values(csr_call.pre))
    => /\ csr_call.err = "ok"
       /\ csr_call.name \in DOMAIN csrs
       /\ csrs[csr_call.name] =
             SetMin({n \in 0..(csr_cfg.n_csrs - 1) : n \notin Values(csr_call.pre)})

\* C11: with every location that alloc scans assigned, add(name) with n
\* omitted and a new name raises the out-of-space error and writes nothing.
C11_ExhaustedAllocFails ==
    (/\ csr_call.op = "add"
     /\ ~csr_call.has_n
     /\ csr_call.name \notin DOMAIN csr_call.pre
     /\ \A n \in 0..(alloc_range(csr_cfg) - 1) : n \in Values(csr_call.pre))
    => /\ csr_call.err = "OutOfSpaceError"
       /\ csrs = csr_call.pre

\* every location of [0, n_csrs) was assigned when the call was made
C11_Witness ==
    /\ csr_call.op = "add"
    /\ ~csr_call.has_n
    /\ csr_call.name \notin DOMAIN csr_call.pre
    /\ \A n \in 0..(csr_cfg.n_csrs - 1) : n \in Values(csr_call.pre)
    /\ csr_call.err = "OutOfSpaceError"

\* C12: the stored capacity n_csrs is data_width/8 * 2^address_width / paging.
C12_CapacityFormula ==
    csr_cfg.n_csrs =
        ((csr_cfg.data_width \div 8) * Pow2(csr_cfg.address_width))
            \div csr_cfg.paging

\* C13: add(name, n) with a new name: a location in use raises the
\* location-in-use error; a free one raises the range error exactly when
\* n < 0 or n > n_csrs and is registered otherwise; a failing call writes
\* nothing.
C13_ExplicitLocation ==
    (/\ csr_call.op = "add"
     /\ csr_call.has_n
     /\ csr_call.name \notin DOMAIN csr_call.pre)
    => LET n   == csr_call.n
           out == n < 0 \/ n > csr_cfg.n_csrs
       IN /\ n \in Values(csr_call.pre) =>
                csr_call.err = "LocationInUseError"
          /\ n \notin Values(csr_call.pre) =>
                /\ (csr_call.err = "RangeError") <=> out
                /\ ~out => /\ csr_call.err = "ok"
                           /\ DOMAIN csrs = DOMAIN csr_call.pre \cup {csr_call.name}
                           /\ csrs[csr_call.name] = n
                           /\ \A k \in DOMAIN csr_call.pre : csrs[k] = csr_call.pre[k]
          /\ csr_call.err # "ok" => csrs = csr_call.pre

\* the location n_csrs itself was accepted
C13_Witness ==
    /\ csr_call.op = "add"
    /\ csr_call.has_n
    /\ csr_call.name \notin DOMAIN csr_call.pre
    /\ csr_call.n = csr_cfg.n_csrs
    /\ csr_call.err = "ok"
    /\ csrs[csr_call.name] = csr_cfg.n_csrs

\* C14: every stored location lies in [0, n_csrs).
C14_LocationsBelowNCsrs ==
    \A k \in DOMAIN csrs : 0 <= csrs[k] /\ csrs[k] < csr_cfg.n_csrs

\* C15: add(name, n, reuse) of a name already in the table returns, logs the
\* location the name has and writes nothing, whatever n is.
C15_ReuseKeepsLocation ==
    (/\ csr_call.op = "add"
     /\ csr_call.reuse
     /\ csr_call.name \in DOMAIN csr_call.pre)
    => /\ csr_call.err = "ok"
       /\ csr_call.loc = csr_call.pre[csr_call.name]
       /\ csrs = csr_call.pre

\* the name was re-added with a location that another name holds
C15_Witness ==
    /\ csr_call.op = "add"
    /\ csr_call.reuse
    /\ csr_call.name \in DOMAIN csr_call.pre
    /\ csr_call.has_n
    /\ csr_call.n # csr_call.pre[csr_call.name]
    /\ csr_call.n \in Values(csr_call.pre)
    /\ csr_call.err = "ok"

\* C16: no two names of the IRQ table are assigned the same line, whatever
\* calls, returned or raised, were made.
C16_IrqLinesUnique ==
    \A a \in DOMAIN irqs, b \in DOMAIN irqs : a # b => irqs[a] # irqs[b]

\* a line held by another name was asked for and refused
C16_Witness ==
    /\ irq_call.op = "add"
    /\ irq_call.has_n
    /\ irq_call.name \notin DOMAIN irq_call.pre
    /\ irq_call.n \in Values(irq_call.pre)
    /\ irq_call.err = "LocationInUseError"
    /\ Cardinality(DOMAIN irqs) >= 2

\* C17: add(name) with n omitted and a new name registers the name at the
\* lowest line of [0, n_irqs) not assigned, and raises the out-of-space
\* error, writing nothing, exactly when every line of [0, n_irqs) is assigned.
C17_LowestFreeLine ==
    (/\ irq_call.op = "add"
     /\ ~irq_call.has_n
     /\ irq_call.name \notin DOMAIN irq_call.pre)
    => LET free == {i \in 0..(n_irqs - 1) : i \notin Values(irq_call.pre)} IN
       /\ (irq_call.err = "OutOfSpaceError") <=> (free = {})
       /\ free = {} => irqs = irq_call.pre
       /\ free # {} =>
            /\ irq_call.err = "ok"
            /\ irq_call.loc \in free
            /\ \A i \in free : irq_call.loc <= i
            /\ DOMAIN irqs = DOMAIN irq_call.pre \cup {irq_call.name}
            /\ irqs[irq_call.name] = irq_call.loc
            /\ \A k \in DOMAIN irq_call.pre : irqs[k] = irq_call.pre[k]

\* reserved {uart: 1}, then add("timer") gave line 0
C17_Witness ==
    /\ irq_call.op = "add"
    /\ ~irq_call.has_n
    /\ irq_call.name = IrqName("timer", 0)
    /\ DOMAIN irq_call.pre = {IrqName("uart", 0)}
    /\ irq_call.pre[IrqName("uart", 0)] = 1
    /\ irq_call.err = "ok"
    /\ irqs[IrqName("timer", 0)] = 0

\* C18: add(name, n) with a name of the table raises the duplicate-name
\* error for every n, omitted, free, in use or out of range, and writes
\* nothing: the name keeps its line.
C18_DuplicateNameFirst ==
    (/\ irq_call.op = "add"
     /\ irq_call.name \in DOMAIN irq_call.pre)
    => /\ irq_call.err = "DuplicateNameError"
       /\ irqs = irq_call.pre
       /\ irqs[irq_call.name] = irq_call.pre[irq_call.name]

\* the name was added again with a line that another name holds
C18_Witness ==
    /\ irq_call.op = "add"
    /\ irq_call.name \in DOMAIN irq_call.pre
    /\ irq_call.has_n
    /\ irq_call.n \in Values(irq_call.pre)
    /\ irq_call.n # irq_call.pre[irq_call.name]
    /\ irq_call.err = "DuplicateNameError"

\* the size rounded up to a power of two
Rounded(size) ==
    CHOOSE p \in {Pow2(i) : i \in 0..DecoderBits} :
        /\ p >= size
        /\ \A q \in {Pow2(i) : i \in 0..DecoderBits} : q >= size => p <= q

Aligned(region) == region.origin % Rounded(region.size) = 0

\* the word origin of the region: the origin without its top bit, >> 2
OriginW(region) == (region.origin % TopBit) \div 4

\* the word address without its top bit
IgnoreTop(a) == a % Pow2(AdrWidth - 1)

\* the predicate answered for adr as membership in [OriginW, OriginW + size_w)
SelIsWindow(size_w) ==
    sel <=> /\ OriginW(self) <= IgnoreTop(adr)
            /\ IgnoreTop(adr) < OriginW(self) + size_w

\* adr is one full size_w below or above the window
OneSizeAway(size_w) ==
    \/ IgnoreTop(adr) = OriginW(self) - size_w
    \/ IgnoreTop(adr) = OriginW(self) + size_w

\* C19 as stated: for an aligned region the predicate accepts a exactly when
\* a without its top bit lies in [origin_w, origin_w + size_w), with
\* size_w = rounded size >> 2, and rejects the addresses one size_w below and
\* above.
C19_DecoderWindow ==
    (Aligned(self) /\ decoded.err # "none")
    => /\ decoded.err = "ok"
       /\ adr >= 0 =>
            LET size_w == Rounded(self.size) \div 4 IN
            /\ SelIsWindow(size_w)
            /\ OneSizeAway(size_w) => ~sel

\* C19, amended: the window is [origin_w, origin_w + size_w) with
\* size_w = rounded size >> 2 when the rounded size is at least 4 bytes, and
\* the single word origin_w when it is smaller; for a rounded size of at
\* least 4 bytes the addresses one size_w below and above are rejected.
C19_DecoderWindowOfWords ==
    (Aligned(self) /\ decoded.err # "none")
    => /\ decoded.err = "ok"
       /\ adr >= 0 =>
            LET size_w == Rounded(self.size) \div 4 IN
            IF size_w >= 1
            THEN /\ SelIsWindow(size_w)
                 /\ OneSizeAway(size_w) => ~sel
            ELSE SelIsWindow(1)

\* an address with its top bit set was accepted by a region whose origin has
\* its top bit set and whose size was rounded up to several words
C19_Witness ==
    /\ Aligned(self)
    /\ decoded.err = "ok"
    /\ self.origin >= TopBit
    /\ Rounded(self.size) # self.size
    /\ Rounded(self.size) >= 8
    /\ adr >= Pow2(AdrWidth - 1)
    /\ IgnoreTop(adr) > OriginW(self)
    /\ sel

\* C20: when add_region or add_slave raises the overlap, region-not-found,
\* duplicate-name or out-of-space error, the region table, the masters and
\* the slaves are what they were before the call.
C20_FailureLeavesStateUnchanged ==
    (/\ bus_call.op \in {"add_region", "add_slave"}
     /\ bus_call.err \in {"OverlapError", "RegionNotFoundError",
                          "DuplicateNameError", "OutOfSpaceError"})
    => /\ regions = bus_call.pre
       /\ slaves = bus_call.pre_slaves
       /\ masters = bus_call.pre_masters

\* C21: a region placed by the allocator passes the alignment check of
\* decoder(): its origin without the top bit is a multiple of its size
\* rounded up to a power of two.
C21_AllocatedRegionDecodes ==
    (/\ bus_call.op = "add_region"
     /\ IsAllocRequest(bus_call.region)
     /\ bus_call.err = "ok")
    => /\ Aligned(Get(regions, bus_call.name))
       /\ decoder(Get(regions, bus_call.name)).err = "ok"

\* C22: on a bus built by calls that all returned, the decoders do_finalize
\* takes for two distinct slaves never accept the same word address.
C22_DecodersDisjoint ==
    (~bus_failed /\ bus_slaves.err = "ok")
    => \A n0 \in DOMAIN bus_slaves.decoders, n1 \in DOMAIN bus_slaves.decoders :
          n0 # n1 =>
              \A a \in WordAddresses :
                  ~(/\ decode(bus_slaves.decoders[n0], a)
                    /\ decode(bus_slaves.decoders[n1], a))

\* the candidates tried in one search region are at most the registered
\* regions plus one
TriesBounded == search.tries <= Len(regions) + 1

\* a candidate that conflicts is followed by one at a strictly higher origin
OriginRises ==
    (search.pc = "scan" /\ search'.pc = "scan" /\ search'.k = search.k
         /\ search' # search)
    => search'.origin > search.origin

\* an alloc_region call that scans ends: it returns a candidate or raises
SearchEnds ==
    (search.pc = "scan") ~> (search.pc \in {"returned", "raised"})

\* C23: the search of alloc_region terminates, returning a candidate or
\* raising; every conflict moves the candidate to a strictly higher origin,
\* and the candidates tried per search region are at most the number of
\* registered regions plus one.
C23_SearchTerminates ==
    /\ []TriesBounded
    /\ [][OriginRises]_vars
    /\ SearchEnds

\* a search returned its third candidate after two conflicts, with two
\* regions registered
C23_Witness ==
    /\ search.pc = "returned"
    /\ Len(regions) = 2
    /\ search.tries = 3
    /\ search.candidate.origin > 0

====
